---- MODULE Spec2Model ----
(***************************************************************************)
(* Model of the catalog engine of src/animation.js: class PortfolioManager *)
(* (works, favorites, savedWorks, the filter state) wired to localStorage. *)
(*                                                                         *)
(* JavaScript strings are sequences of UTF-16 code units (integers), so    *)
(* that toLowerCase, trim, includes and the default sort order are         *)
(* computed and not assumed.  A JSON text is modelled by the document it   *)
(* denotes: <<"arr", items>>, <<"obj", members>>, <<"str", s>>,            *)
(* <<"num", n>>, where members is the list of <<key, value>> pairs that    *)
(* JSON.stringify emits (own properties in order, undefined ones omitted). *)
(***************************************************************************)
EXTENDS Integers, Sequences, FiniteSets, TLC

VARIABLES
    clock,          \* the value Date.now() returns (milliseconds)
    localStorage,   \* the blob store: key -> Null or a stored text
    works,          \* PortfolioManager.works
    favorites,      \* PortfolioManager.favorites
    savedWorks,     \* PortfolioManager.savedWorks
    filteredWorks,  \* PortfolioManager.filteredWorks
    activeFilters,  \* PortfolioManager.activeFilters (a JS Set of strings)
    searchQuery,    \* PortfolioManager.searchQuery
    lastOp,         \* history: name of the last operation that was called
    returned,       \* history: the value that call returned
    initError,      \* TRUE when new PortfolioManager() threw: no instance
    selectedTagsList, \* UIManager.selectedTagsList (a JS Set, in insertion order)
    formFields,     \* the values of the text inputs of the upload form
    imageInput,     \* imageInput.files[0]: the chosen file's data, or undefined
    readers         \* the file reads in flight (FileReader), by their data

vars == <<clock, localStorage, works, favorites, savedWorks, filteredWorks,
          activeFilters, searchQuery, lastOp, returned, initError,
          selectedTagsList, formFields, imageInput, readers>>

\* the state of the page outside the catalog
pageVars == <<initError, selectedTagsList, formFields, imageInput, readers>>

----------------------------------------------------------------------------
(* Bounds of the model *)

MaxClock == 2
MaxWorks == 2
MaxReaders == 2

----------------------------------------------------------------------------
(* JavaScript strings *)

Undefined == <<-1>>     \* the value undefined (no string holds a negative unit)

IsWhite(c) == c \in {9, 10, 11, 12, 13, 32, 160}

toLowerCase(s) ==
    [i \in 1..Len(s) |-> IF s[i] \in 65..90 THEN s[i] + 32 ELSE s[i]]

SetMin(S) == CHOOSE x \in S : \A y \in S : x <= y
SetMax(S) == CHOOSE x \in S : \A y \in S : y <= x

trim(s) ==
    LET keep == {i \in 1..Len(s) : ~IsWhite(s[i])}
    IN  IF keep = {} THEN <<>> ELSE SubSeq(s, SetMin(keep), SetMax(keep))

includes(s, q) ==
    \E i \in 0..(Len(s) - Len(q)) : SubSeq(s, i + 1, i + Len(q)) = q

normalizeTag(tag) == toLowerCase(trim(tag))

\* a < b in the order of Array.prototype.sort without a comparator
StrLess(a, b) ==
    \E k \in 1..Len(b) :
        /\ k <= Len(a) + 1
        /\ \A j \in 1..(k - 1) : a[j] = b[j]
        /\ (k = Len(a) + 1 \/ a[k] < b[k])

RECURSIVE InsertSorted(_, _)
InsertSorted(s, x) ==
    IF s = <<>> THEN <<x>>
    ELSE IF StrLess(x, Head(s)) THEN <<x>> \o s
    ELSE <<Head(s)>> \o InsertSorted(Tail(s), x)

RECURSIVE ArraySort(_)
ArraySort(s) ==
    IF s = <<>> THEN <<>>
    ELSE InsertSorted(ArraySort(SubSeq(s, 1, Len(s) - 1)), s[Len(s)])

\* new Date(t).toISOString() for 0 <= t < 1000: "1970-01-01T00:00:00.mmmZ"
toISOString(t) ==
    <<49, 57, 55, 48, 45, 48, 49, 45, 48, 49, 84, 48, 48, 58, 48, 48, 58,
      48, 48, 46>>
    \o <<48 + ((t \div 100) % 10), 48 + ((t \div 10) % 10), 48 + (t % 10),
         90>>

----------------------------------------------------------------------------
(* Inputs the operations are called with *)

\* strings used below, as code units
sEmpty == <<>>
sA == <<65>>                \* "A"
sa == <<97>>                \* "a"
sB == <<66>>                \* "B"
sb == <<98>>                \* "b"
sC == <<67>>                \* "C"
sc == <<99>>                \* "c"
sAb == <<65, 98>>           \* "Ab"
saB == <<97, 66>>           \* "aB"
sAB == <<65, 66>>           \* "AB"
sA_ == <<65, 32>>           \* "A "
s_a_ == <<32, 97, 32>>      \* " a "
sa_b == <<97, 32, 98>>      \* "a b"
si == <<105>>               \* "i"
su == <<117>>               \* "u"

Draft1 ==
    [image |-> si, title |-> sAb, description |-> sEmpty,
     tags |-> <<sB, sA>>, author |-> sc, instagramUrl |-> Undefined]

Draft2 ==
    [image |-> si, title |-> sb, description |-> sA_,
     tags |-> <<s_a_>>, author |-> sC, instagramUrl |-> su]

Draft3 ==
    [image |-> sEmpty, title |-> sEmpty, description |-> sEmpty,
     tags |-> <<sa_b, sA>>, author |-> saB, instagramUrl |-> sEmpty]

Draft4 ==
    [image |-> sEmpty, title |-> sEmpty, description |-> sEmpty,
     tags |-> <<>>, author |-> sEmpty, instagramUrl |-> sEmpty]

\* inputs of the specification of all operations
Drafts == {Draft1, Draft2}
Queries == {sEmpty, sA_}
FilterTags == {sA, sb}
Artists == {[name |-> sA, workCount |-> 1]}
ArtistNames == {a.name : a \in Artists}
SaveIds == {1, 2}
Ids == 1..MaxClock

\* inputs of the specification of the frame of each operation
FrameDrafts == {Draft1}

\* inputs of the specification of the upload form
EmptyForm ==
    [title |-> sEmpty, description |-> sEmpty, author |-> sEmpty,
     instagramUrl |-> sEmpty]
FormInputs ==
    {[title |-> sAb, description |-> sEmpty, author |-> sc,
      instagramUrl |-> su]}
UploadTags == {sA, sB}
Files == {si}

\* inputs of the specification of the filter engine
AllDrafts == {Draft1, Draft2, Draft3, Draft4}
AllQueries == {sEmpty, sA_, sAB, sc}
AllFilterTags == {sA, s_a_, sB, sa_b}

\* inputs of the specification of the favorites
AllArtists == {[name |-> sA, workCount |-> 1], [name |-> sA, workCount |-> 2],
               [name |-> sa, workCount |-> 1], [name |-> sB, workCount |-> 1]}
AllArtistNames == {a.name : a \in AllArtists}

----------------------------------------------------------------------------
(* JSON.stringify and JSON.parse *)

Null == [kind |-> "null"]

Text(doc) == [kind |-> "json", doc |-> doc]

\* the empty string: a stored value that is falsy, and no JSON text
EmptyText == [kind |-> "empty"]

\* a non-empty string that is no JSON text, such as "{"
Garbage == [kind |-> "garbage"]

\* JSON.parse(text) throws a SyntaxError
SyntaxError(text) == text.kind \in {"empty", "garbage"}

\* a serializer that omits every falsy property, empty strings included
Members_dropFalsy(pairs) ==
    SelectSeq(pairs, LAMBDA m : ~(m[2][1] = "str"
                                  /\ m[2][2] \in {Undefined, <<>>}))

\* the member list of an object: undefined-valued properties are omitted
Members(pairs) ==
    SelectSeq(pairs, LAMBDA m : ~(m[2][1] = "str" /\ m[2][2] = Undefined))

StrArray(a) == <<"arr", [i \in 1..Len(a) |-> <<"str", a[i]>>]>>

WorkToJSON(w) ==
    <<"obj", Members(<< <<"image", <<"str", w.image>> >>,
                        <<"title", <<"str", w.title>> >>,
                        <<"description", <<"str", w.description>> >>,
                        <<"tags", StrArray(w.tags)>>,
                        <<"author", <<"str", w.author>> >>,
                        <<"instagramUrl", <<"str", w.instagramUrl>> >>,
                        <<"id", <<"num", w.id>> >> >>)>>

FavoriteToJSON(f) ==
    <<"obj", Members(<< <<"name", <<"str", f.name>> >>,
                        <<"workCount", <<"num", f.workCount>> >>,
                        <<"addedDate", <<"str", f.addedDate>> >> >>)>>

stringifyWorks(ws) ==
    Text(<<"arr", [i \in 1..Len(ws) |-> WorkToJSON(ws[i])]>>)

stringifyFavorites(fs) ==
    Text(<<"arr", [i \in 1..Len(fs) |-> FavoriteToJSON(fs[i])]>>)

stringifySavedWorks(ids) ==
    Text(<<"arr", [i \in 1..Len(ids) |-> <<"num", ids[i]>>]>>)

\* reading property key of a parsed object: undefined when it has no such key
Prop(obj, key) ==
    LET at == {i \in 1..Len(obj[2]) : obj[2][i][1] = key}
    IN  IF at = {} THEN Undefined ELSE obj[2][SetMax(at)][2][2]

ParseStrArray(v) == [i \in 1..Len(v) |-> v[i][2]]

WorkFromJSON(obj) ==
    [image |-> Prop(obj, "image"), title |-> Prop(obj, "title"),
     description |-> Prop(obj, "description"),
     tags |-> ParseStrArray(Prop(obj, "tags")),
     author |-> Prop(obj, "author"),
     instagramUrl |-> Prop(obj, "instagramUrl"), id |-> Prop(obj, "id")]

FavoriteFromJSON(obj) ==
    [name |-> Prop(obj, "name"), workCount |-> Prop(obj, "workCount"),
     addedDate |-> Prop(obj, "addedDate")]

parseWorks(text) ==
    [i \in 1..Len(text.doc[2]) |-> WorkFromJSON(text.doc[2][i])]

parseFavorites(text) ==
    [i \in 1..Len(text.doc[2]) |-> FavoriteFromJSON(text.doc[2][i])]

parseSavedWorks(text) ==
    [i \in 1..Len(text.doc[2]) |-> text.doc[2][i][2]]

----------------------------------------------------------------------------
(* PortfolioManager *)

storageKey == "portfolioWorks"
favoritesKey == "favoriteArtists"
savedWorksKey == "savedWorks"

Keys == {storageKey, favoritesKey, savedWorksKey}

getItem(key) == localStorage[key]

setItem(key, text) == localStorage' = [localStorage EXCEPT ![key] = text]

\* the truthiness of a value getItem returns: null and "" are falsy
Truthy(data) == data.kind \notin {"null", "empty"}

\* a load that parses whatever is stored, the empty string included
loadThrows_parseAlways(key) ==
    getItem(key) # Null /\ SyntaxError(getItem(key))

\* the load of this key throws: JSON.parse is reached and fails
loadThrows(key) == Truthy(getItem(key)) /\ SyntaxError(getItem(key))

loadWorks ==
    LET data == getItem(storageKey)
    IN  IF Truthy(data) THEN parseWorks(data) ELSE <<>>

loadSavedWorks ==
    LET data == getItem(savedWorksKey)
    IN  IF Truthy(data) THEN parseSavedWorks(data) ELSE <<>>

loadFavorites ==
    LET data == getItem(favoritesKey)
    IN  IF Truthy(data) THEN parseFavorites(data) ELSE <<>>

saveWorks == setItem(storageKey, stringifyWorks(works'))

saveSavedWorks == setItem(savedWorksKey, stringifySavedWorks(savedWorks'))

saveFavorites == setItem(favoritesKey, stringifyFavorites(favorites'))

isWorkSavedIn(saved, workId) == \E i \in 1..Len(saved) : saved[i] = workId

isWorkSaved(workId) == isWorkSavedIn(savedWorks, workId)

\* a toggle that never removes
toggleSaveWorkResult_addOnly(saved, workId) ==
    IF isWorkSavedIn(saved, workId) THEN saved ELSE Append(saved, workId)

\* a toggle that pushes without looking
toggleSaveWorkResult_push(saved, workId) == Append(saved, workId)

\* the new value of this.savedWorks
toggleSaveWorkResult(saved, workId) ==
    IF isWorkSavedIn(saved, workId)
    THEN SelectSeq(saved, LAMBDA id : id # workId)
    ELSE Append(saved, workId)

isFavorited(artistName) ==
    \E i \in 1..Len(favorites) : favorites[i].name = artistName

searchMatch(work, query) ==
    \/ query = <<>>
    \/ includes(toLowerCase(work.title), toLowerCase(query))
    \/ includes(toLowerCase(work.description), toLowerCase(query))
    \/ includes(toLowerCase(work.author), toLowerCase(query))

tagMatch(work, filters) ==
    \/ Cardinality(filters) = 0
    \/ \E i \in 1..Len(work.tags) : normalizeTag(work.tags[i]) \in filters

\* a filter that keeps a work when either predicate holds
applyFiltersResult_either(ws, query, filters) ==
    SelectSeq(ws, LAMBDA work : searchMatch(work, query) \/ tagMatch(work, filters))

\* the new value of this.filteredWorks
applyFiltersResult(ws, query, filters) ==
    SelectSeq(ws, LAMBDA work : searchMatch(work, query) /\ tagMatch(work, filters))

applyFilters ==
    filteredWorks' = applyFiltersResult(works', searchQuery', activeFilters')

\* adding to a JS Set keeps insertion order and ignores a present element
RECURSIVE SetAddAll(_, _)
SetAddAll(ordered, items) ==
    IF items = <<>> THEN ordered
    ELSE SetAddAll(IF \E i \in 1..Len(ordered) : ordered[i] = Head(items)
                   THEN ordered ELSE Append(ordered, Head(items)),
                   Tail(items))

RECURSIVE TagSetOf(_)
TagSetOf(ws) ==
    IF ws = <<>> THEN <<>>
    ELSE SetAddAll(TagSetOf(SubSeq(ws, 1, Len(ws) - 1)),
                   [i \in 1..Len(ws[Len(ws)].tags) |->
                        normalizeTag(ws[Len(ws)].tags[i])])

\* the tag set in insertion order, not sorted
getAllTagsOf_unsorted(ws) == TagSetOf(ws)

getAllTagsOf(ws) == ArraySort(TagSetOf(ws))

getAllTags == getAllTagsOf(works)

----------------------------------------------------------------------------
(* Initial state: the page is loaded over an empty localStorage *)

Init ==
    /\ clock = 1
    /\ localStorage = [k \in Keys |-> Null]
    /\ works = <<>>
    /\ favorites = <<>>
    /\ savedWorks = <<>>
    /\ filteredWorks = <<>>
    /\ activeFilters = {}
    /\ searchQuery = <<>>
    /\ lastOp = "constructor"
    /\ returned = Undefined
    /\ initError = FALSE
    /\ selectedTagsList = <<>>
    /\ formFields = EmptyForm
    /\ imageInput = Undefined
    /\ readers = <<>>

(* Operations *)

\* time passes between two calls
Tick ==
    /\ clock < MaxClock
    /\ clock' = clock + 1
    /\ UNCHANGED <<localStorage, works, favorites, savedWorks, filteredWorks,
                   activeFilters, searchQuery, lastOp, returned>>
    /\ UNCHANGED pageVars

\* new PortfolioManager() over the current localStorage (the page is reloaded)
\* and new UIManager(manager) after it; a load that throws aborts both, and
\* the page is left without a manager
constructor ==
    /\ lastOp' = "constructor"
    /\ IF \E key \in Keys : loadThrows(key)
       THEN /\ initError' = TRUE
            /\ works' = <<>>
            /\ favorites' = <<>>
            /\ savedWorks' = <<>>
       ELSE /\ initError' = FALSE
            /\ works' = loadWorks
            /\ favorites' = loadFavorites
            /\ savedWorks' = loadSavedWorks
    /\ filteredWorks' = works'
    /\ activeFilters' = {}
    /\ searchQuery' = <<>>
    /\ returned' = Undefined
    /\ selectedTagsList' = <<>>
    /\ formFields' = EmptyForm
    /\ imageInput' = Undefined
    /\ readers' = <<>>
    /\ UNCHANGED <<clock, localStorage>>

toggleSaveWork(workId) ==
    /\ lastOp' = "toggleSaveWork"
    /\ savedWorks' = toggleSaveWorkResult(savedWorks, workId)
    /\ saveSavedWorks
    /\ returned' = Undefined
    /\ UNCHANGED <<clock, works, favorites, filteredWorks, activeFilters,
                   searchQuery>>
    /\ UNCHANGED pageVars

\* addFavorite that appends without looking for an entry of the same name
addFavorite_always(artist) ==
    /\ lastOp' = "addFavorite"
    /\ favorites' = Append(favorites,
             [name |-> artist.name, workCount |-> artist.workCount,
              addedDate |-> toISOString(clock)])
    /\ saveFavorites
    /\ returned' = Undefined
    /\ UNCHANGED <<clock, works, savedWorks, filteredWorks, activeFilters,
                   searchQuery>>
    /\ UNCHANGED pageVars

addFavorite(artist) ==
    /\ lastOp' = "addFavorite"
    /\ IF ~\E i \in 1..Len(favorites) : favorites[i].name = artist.name
       THEN /\ favorites' = Append(favorites,
                     [name |-> artist.name, workCount |-> artist.workCount,
                      addedDate |-> toISOString(clock)])
            /\ saveFavorites
       ELSE UNCHANGED <<favorites, localStorage>>
    /\ returned' = Undefined
    /\ UNCHANGED <<clock, works, savedWorks, filteredWorks, activeFilters,
                   searchQuery>>
    /\ UNCHANGED pageVars

\* removeFavorite that compares the entry, not its name, with the name
removeFavorite_compareEntry(artistName) ==
    /\ lastOp' = "removeFavorite"
    /\ favorites' = favorites
    /\ saveFavorites
    /\ returned' = Undefined
    /\ UNCHANGED <<clock, works, savedWorks, filteredWorks, activeFilters,
                   searchQuery>>
    /\ UNCHANGED pageVars

\* removeFavorite that forgets to persist
removeFavorite_noSave(artistName) ==
    /\ lastOp' = "removeFavorite"
    /\ favorites' = SelectSeq(favorites, LAMBDA fav : fav.name # artistName)
    /\ returned' = Undefined
    /\ UNCHANGED <<clock, localStorage, works, savedWorks, filteredWorks,
                   activeFilters, searchQuery>>
    /\ UNCHANGED pageVars

removeFavorite(artistName) ==
    /\ lastOp' = "removeFavorite"
    /\ favorites' = SelectSeq(favorites, LAMBDA fav : fav.name # artistName)
    /\ saveFavorites
    /\ returned' = Undefined
    /\ UNCHANGED <<clock, works, savedWorks, filteredWorks, activeFilters,
                   searchQuery>>
    /\ UNCHANGED pageVars

\* addWork that puts the new work in front
addWork_unshift(work) ==
    /\ lastOp' = "addWork"
    /\ Len(works) < MaxWorks
    /\ works' = <<[id |-> clock] @@ work>> \o works
    /\ saveWorks
    /\ UNCHANGED <<activeFilters, searchQuery>>
    /\ applyFilters
    /\ returned' = Undefined
    /\ UNCHANGED <<clock, favorites, savedWorks>>

addWork(work) ==
    /\ lastOp' = "addWork"
    /\ Len(works) < MaxWorks
    /\ works' = Append(works, [id |-> clock] @@ work)
    /\ saveWorks
    /\ UNCHANGED <<activeFilters, searchQuery>>
    /\ applyFilters
    /\ returned' = Undefined
    /\ UNCHANGED <<clock, favorites, savedWorks>>

\* deleteWork that does not recompute the filtered view
deleteWork_stale(id) ==
    /\ lastOp' = "deleteWork"
    /\ works' = SelectSeq(works, LAMBDA work : work.id # id)
    /\ saveWorks
    /\ returned' = Undefined
    /\ UNCHANGED <<clock, favorites, savedWorks, activeFilters, searchQuery,
                   filteredWorks>>
    /\ UNCHANGED pageVars

\* deleteWork with the comparison inverted
deleteWork_inverted(id) ==
    /\ lastOp' = "deleteWork"
    /\ works' = SelectSeq(works, LAMBDA work : work.id = id)
    /\ saveWorks
    /\ UNCHANGED <<activeFilters, searchQuery>>
    /\ applyFilters
    /\ returned' = Undefined
    /\ UNCHANGED <<clock, favorites, savedWorks>>
    /\ UNCHANGED pageVars

\* deleteWork that also drops the id from the saved works
deleteWork_cascade(id) ==
    /\ lastOp' = "deleteWork"
    /\ works' = SelectSeq(works, LAMBDA work : work.id # id)
    /\ savedWorks' = SelectSeq(savedWorks, LAMBDA workId : workId # id)
    /\ localStorage' =
           [localStorage EXCEPT ![storageKey] = stringifyWorks(works'),
                                ![savedWorksKey] = stringifySavedWorks(savedWorks')]
    /\ UNCHANGED <<activeFilters, searchQuery>>
    /\ applyFilters
    /\ returned' = Undefined
    /\ UNCHANGED <<clock, favorites>>
    /\ UNCHANGED pageVars

deleteWork(id) ==
    /\ lastOp' = "deleteWork"
    /\ works' = SelectSeq(works, LAMBDA work : work.id # id)
    /\ saveWorks
    /\ UNCHANGED <<activeFilters, searchQuery>>
    /\ applyFilters
    /\ returned' = Undefined
    /\ UNCHANGED <<clock, favorites, savedWorks>>
    /\ UNCHANGED pageVars

getAllTagsCall ==
    /\ lastOp' = "getAllTags"
    /\ returned' = getAllTags
    /\ UNCHANGED <<clock, localStorage, works, favorites, savedWorks,
                   filteredWorks, activeFilters, searchQuery>>
    /\ UNCHANGED pageVars

\* a toggle of the tag as given, not normalized
toggleFilterResult_raw(filters, tag) ==
    IF tag \in filters THEN filters \ {tag} ELSE filters \cup {tag}

\* the new value of this.activeFilters
toggleFilterResult(filters, tag) ==
    LET normalizedTag == normalizeTag(tag)
    IN  IF normalizedTag \in filters
        THEN filters \ {normalizedTag}
        ELSE filters \cup {normalizedTag}

setSearchQuery(query) ==
    /\ lastOp' = "setSearchQuery"
    /\ searchQuery' = query
    /\ UNCHANGED <<works, activeFilters>>
    /\ applyFilters
    /\ returned' = Undefined
    /\ UNCHANGED <<clock, localStorage, favorites, savedWorks>>
    /\ UNCHANGED pageVars

toggleFilter(tag) ==
    /\ lastOp' = "toggleFilter"
    /\ activeFilters' = toggleFilterResult(activeFilters, tag)
    /\ UNCHANGED <<works, searchQuery>>
    /\ applyFilters
    /\ returned' = Undefined
    /\ UNCHANGED <<clock, localStorage, favorites, savedWorks>>
    /\ UNCHANGED pageVars

\* clearFilters that does not recompute the filtered view
clearFilters_stale ==
    /\ lastOp' = "clearFilters"
    /\ activeFilters' = {}
    /\ returned' = Undefined
    /\ UNCHANGED <<clock, localStorage, works, favorites, savedWorks,
                   filteredWorks, searchQuery>>
    /\ UNCHANGED pageVars

clearFilters ==
    /\ lastOp' = "clearFilters"
    /\ activeFilters' = {}
    /\ UNCHANGED <<works, searchQuery>>
    /\ applyFilters
    /\ returned' = Undefined
    /\ UNCHANGED <<clock, localStorage, favorites, savedWorks>>
    /\ UNCHANGED pageVars

\* a filter that replaces the catalog by the filtered view
applyFiltersCall_destructive ==
    /\ lastOp' = "applyFilters"
    /\ works' = applyFiltersResult(works, searchQuery, activeFilters)
    /\ filteredWorks' = works'
    /\ returned' = Undefined
    /\ UNCHANGED <<clock, localStorage, favorites, savedWorks, activeFilters,
                   searchQuery>>
    /\ UNCHANGED pageVars

\* applyFilters called on its own
applyFiltersCall ==
    /\ lastOp' = "applyFilters"
    /\ UNCHANGED <<works, activeFilters, searchQuery>>
    /\ applyFilters
    /\ returned' = Undefined
    /\ UNCHANGED <<clock, localStorage, favorites, savedWorks>>
    /\ UNCHANGED pageVars

isWorkSavedCall(workId) ==
    /\ lastOp' = "isWorkSaved"
    /\ returned' = isWorkSaved(workId)
    /\ UNCHANGED <<clock, localStorage, works, favorites, savedWorks,
                   filteredWorks, activeFilters, searchQuery>>
    /\ UNCHANGED pageVars

isFavoritedCall(artistName) ==
    /\ lastOp' = "isFavorited"
    /\ returned' = isFavorited(artistName)
    /\ UNCHANGED <<clock, localStorage, works, favorites, savedWorks,
                   filteredWorks, activeFilters, searchQuery>>
    /\ UNCHANGED pageVars

\* the variables of the catalog and its history
managerVars == <<clock, localStorage, works, favorites, savedWorks,
                 filteredWorks, activeFilters, searchQuery, lastOp, returned>>

(* UIManager: the upload form *)

\* the new value of this.selectedTagsList
toggleTagResult(selected, tag) ==
    IF \E i \in 1..Len(selected) : selected[i] = tag
    THEN SelectSeq(selected, LAMBDA t : t # tag)
    ELSE Append(selected, tag)

toggleTag(tag) ==
    /\ selectedTagsList' = toggleTagResult(selectedTagsList, tag)
    /\ UNCHANGED <<initError, formFields, imageInput, readers>>
    /\ UNCHANGED managerVars

\* the user types into the text inputs of the form
inputForm(fields) ==
    /\ formFields' = fields
    /\ UNCHANGED <<initError, selectedTagsList, imageInput, readers>>
    /\ UNCHANGED managerVars

\* the user picks a file in the image input
chooseFile(file) ==
    /\ imageInput' = file
    /\ UNCHANGED <<initError, selectedTagsList, formFields, readers>>
    /\ UNCHANGED managerVars

\* the submit handler: it returns after the alert when no tag is selected,
\* readAsDataURL throws when no file is chosen, else a read is started
handleUpload ==
    /\ Len(readers) < MaxReaders
    /\ IF Len(selectedTagsList) = 0 \/ imageInput = Undefined
       THEN UNCHANGED readers
       ELSE readers' = Append(readers, imageInput)
    /\ UNCHANGED <<initError, selectedTagsList, formFields, imageInput>>
    /\ UNCHANGED managerVars

\* the effect of resetUploadForm on the form
resetUploadForm ==
    /\ formFields' = EmptyForm
    /\ imageInput' = Undefined
    /\ selectedTagsList' = <<>>

\* reader.onload of the k-th read in flight: the work is built from the form
\* as it is now, handed to addWork, and the form is reset
readerOnload(k) ==
    /\ k \in 1..Len(readers)
    /\ addWork([image |-> readers[k],
                title |-> formFields.title,
                description |-> formFields.description,
                tags |-> selectedTagsList,
                author |-> formFields.author,
                instagramUrl |-> formFields.instagramUrl])
    /\ resetUploadForm
    /\ readers' = [i \in 1..(Len(readers) - 1) |->
                       IF i < k THEN readers[i] ELSE readers[i + 1]]
    /\ UNCHANGED initError

(* Another script of the origin, or the user, writes a key of localStorage *)

corruptItem(key, text) ==
    /\ setItem(key, text)
    /\ UNCHANGED <<clock, works, favorites, savedWorks, filteredWorks,
                   activeFilters, searchQuery, lastOp, returned>>
    /\ UNCHANGED pageVars

\* every operation of the catalog, in any order
Next ==
    \/ Tick
    \/ constructor
    \/ \E workId \in SaveIds : toggleSaveWork(workId)
    \/ \E artist \in Artists : addFavorite(artist)
    \/ \E artistName \in ArtistNames : removeFavorite(artistName)
    \/ \E work \in Drafts : addWork(work) /\ UNCHANGED pageVars
    \/ \E id \in Ids : deleteWork(id)
    \/ \E query \in Queries : setSearchQuery(query)
    \/ \E tag \in FilterTags : toggleFilter(tag)
    \/ clearFilters

Spec == Init /\ [][Next]_vars

\* the filter engine and the tag vocabulary over a growing catalog
NextFilter ==
    \/ \E work \in AllDrafts : addWork(work) /\ UNCHANGED pageVars
    \/ \E query \in AllQueries : setSearchQuery(query)
    \/ \E tag \in AllFilterTags : toggleFilter(tag)
    \/ clearFilters
    \/ getAllTagsCall

SpecFilter == Init /\ [][NextFilter]_vars

\* the upload form, its reads in flight, and the catalog they feed
NextUpload ==
    \/ \E tag \in UploadTags : toggleTag(tag)
    \/ \E fields \in FormInputs : inputForm(fields)
    \/ \E file \in Files : chooseFile(file)
    \/ handleUpload
    \/ \E k \in 1..MaxReaders : readerOnload(k)

SpecUpload == Init /\ [][NextUpload]_vars

\* page loads over a localStorage that something else may have written
NextStorage ==
    \/ \E key \in Keys : \E text \in {EmptyText, Garbage} : corruptItem(key, text)
    \/ constructor
    \/ ~initError /\ \E workId \in SaveIds : toggleSaveWork(workId)
    \/ ~initError /\ \E artist \in Artists : addFavorite(artist)
    \/ ~initError /\ \E work \in {Draft1} : addWork(work) /\ UNCHANGED pageVars

SpecStorage == Init /\ [][NextStorage]_vars

\* every operation and every query of the catalog at one clock value
NextFrame ==
    \/ \E workId \in SaveIds : toggleSaveWork(workId)
    \/ \E artist \in Artists : addFavorite(artist)
    \/ \E artistName \in ArtistNames : removeFavorite(artistName)
    \/ \E work \in FrameDrafts : addWork(work) /\ UNCHANGED pageVars
    \/ \E id \in Ids : deleteWork(id)
    \/ \E query \in Queries : setSearchQuery(query)
    \/ \E tag \in FilterTags : toggleFilter(tag)
    \/ clearFilters
    \/ applyFiltersCall
    \/ getAllTagsCall
    \/ \E workId \in SaveIds : isWorkSavedCall(workId)
    \/ \E artistName \in ArtistNames : isFavoritedCall(artistName)

SpecFrame == Init /\ [][NextFrame]_vars

\* the favorites collection
NextFavorites ==
    \/ Tick
    \/ constructor
    \/ \E artist \in AllArtists : addFavorite(artist)
    \/ \E artistName \in AllArtistNames : removeFavorite(artistName)

SpecFavorites == Init /\ [][NextFavorites]_vars

----------------------------------------------------------------------------
(* Properties *)

\* C1: every addWork call lengthens Works by exactly one (so after n calls on
\* an empty catalog the length is n) and gives the new work an id that no
\* work already in Works has (so the ids assigned are pairwise distinct),
\* whatever the clock values of the calls.
AddWorkFreshIds ==
    [][\A work \in Drafts :
          addWork(work) =>
              /\ Len(works') = Len(works) + 1
              /\ \A i \in 1..Len(works) :
                     works[i].id # works'[Len(works')].id]_vars

\* C2: in every reachable state filteredWorks is the result of applyFilters
\* on the current works, searchQuery and activeFilters.
FilteredWorksUpToDate ==
    filteredWorks = applyFiltersResult(works, searchQuery, activeFilters)

FilteredAfterDelete ==
    /\ lastOp = "deleteWork"
    /\ works # <<>>
    /\ filteredWorks # works

\* C3: filteredWorks holds exactly the works that pass the search predicate
\* (empty query, or the lower-cased query is a substring of the lower-cased
\* title, description or author) and the tag predicate (no active filter,
\* or a normalized tag of the work is active), in the order of works.
FilteredExactlyBoth ==
    LET Substring(q, str) ==
            \E i \in 1..(Len(str) + 1) :
                \E j \in (i - 1)..Len(str) : SubSeq(str, i, j) = q
        PassesSearch(w) ==
            \/ searchQuery = <<>>
            \/ \E field \in {w.title, w.description, w.author} :
                   Substring(toLowerCase(searchQuery), toLowerCase(field))
        PassesTags(w) ==
            \/ activeFilters = {}
            \/ \E t \in {w.tags[i] : i \in 1..Len(w.tags)} :
                   toLowerCase(trim(t)) \in activeFilters
        passing == {i \in 1..Len(works) :
                        PassesSearch(works[i]) /\ PassesTags(works[i])}
        kth(k) == CHOOSE i \in passing :
                      Cardinality({j \in passing : j < i}) = k - 1
    IN  /\ Len(filteredWorks) = Cardinality(passing)
        /\ \A k \in 1..Len(filteredWorks) : filteredWorks[k] = works[kth(k)]

OnePredicateEach ==
    /\ lastOp \in {"setSearchQuery", "toggleFilter"}
    /\ searchQuery # <<>>
    /\ activeFilters # {}
    /\ \E i, j \in 1..Len(works) :
           /\ searchMatch(works[i], searchQuery)
           /\ ~tagMatch(works[i], activeFilters)
           /\ ~searchMatch(works[j], searchQuery)
           /\ tagMatch(works[j], activeFilters)
    /\ filteredWorks = <<>>

\* C4: for every id, after a toggleSaveWork(id) a second toggleSaveWork(id)
\* restores isWorkSaved(id) and the set of saved ids to what they were before
\* the first, and neither application changes the saved status of another id.
ToggleSaveTwice ==
    [][\A id \in SaveIds :
          toggleSaveWork(id) =>
              LET twice == toggleSaveWorkResult(savedWorks', id)
                  Has(saved, x) == \E i \in 1..Len(saved) : saved[i] = x
                  SetOf(saved) == {saved[i] : i \in 1..Len(saved)}
              IN  /\ Has(savedWorks', id) # Has(savedWorks, id)
                  /\ Has(twice, id) = Has(savedWorks, id)
                  /\ SetOf(twice) = SetOf(savedWorks)
                  /\ \A other \in SaveIds \ {id} :
                         /\ Has(savedWorks', other) = Has(savedWorks, other)
                         /\ Has(twice, other) = Has(savedWorks, other)]_vars

ToggledOffAndOn ==
    /\ lastOp = "toggleSaveWork"
    /\ savedWorks = <<2, 1>>

\* C5: each work id appears at most once in savedWorks.
SavedIdsAtMostOnce ==
    \A i, j \in 1..Len(savedWorks) : i # j => savedWorks[i] # savedWorks[j]

TwoSavedAmongOtherOps ==
    /\ Len(savedWorks) = 2
    /\ works # <<>>
    /\ favorites # <<>>
    /\ lastOp = "toggleSaveWork"

\* C6: after every step the favorites hold at most one entry per name
\* (compared exactly), and addFavorite with a name that is already present
\* leaves the favorites unchanged.
OneFavoritePerName ==
    [][/\ \A i, j \in 1..Len(favorites') :
              i # j => favorites'[i].name # favorites'[j].name
       /\ \A artist \in AllArtists :
              (addFavorite(artist)
               /\ \E i \in 1..Len(favorites) : favorites[i].name = artist.name)
              => favorites' = favorites]_vars

FavoritesOfAllNames ==
    /\ lastOp = "addFavorite"
    /\ Len(favorites) = 3
    /\ \E i, j \in 1..Len(favorites) :
           favorites[i].name = sA /\ favorites[j].name = sa

\* C7: after deleteWork(id) no work with that id remains and the other works
\* remain in their order; when no work has that id, works and filteredWorks
\* are unchanged (so a second deleteWork(id) changes nothing).
DeleteWorkRemovesOnlyId ==
    [][\A id \in Ids :
          deleteWork(id) =>
              LET others == {i \in 1..Len(works) : works[i].id # id}
                  kth(k) == CHOOSE i \in others :
                                Cardinality({j \in others : j < i}) = k - 1
              IN  /\ \A i \in 1..Len(works') : works'[i].id # id
                  /\ Len(works') = Cardinality(others)
                  /\ \A k \in 1..Len(works') : works'[k] = works[kth(k)]
                  /\ (others = 1..Len(works)) =>
                         (works' = works /\ filteredWorks' = filteredWorks)]_vars

DeletedOneOfTwo ==
    /\ lastOp = "deleteWork"
    /\ Len(works) = 1
    /\ Len(localStorage[storageKey].doc[2]) = 1

\* C8: each collection is mirrored by localStorage: the text under its key
\* parses to the collection, or the key is absent and the collection empty.
StoreMirrorsCollections ==
    /\ IF localStorage[storageKey] = Null THEN works = <<>>
       ELSE parseWorks(localStorage[storageKey]) = works
    /\ IF localStorage[favoritesKey] = Null THEN favorites = <<>>
       ELSE parseFavorites(localStorage[favoritesKey]) = favorites
    /\ IF localStorage[savedWorksKey] = Null THEN savedWorks = <<>>
       ELSE parseSavedWorks(localStorage[savedWorksKey]) = savedWorks

AllKeysWritten ==
    /\ lastOp = "removeFavorite"
    /\ favorites = <<>>
    /\ localStorage[favoritesKey] # Null
    /\ \E i \in 1..Len(works) : works[i].instagramUrl = Undefined
    /\ savedWorks # <<>>

\* C9: constructing a catalog over localStorage yields the works, favorites
\* and saved ids of the old instance, an empty query, no active filter and
\* filteredWorks equal to works; an absent key yields an empty collection.
ReloadRoundTrip ==
    [][constructor =>
          /\ works' = works
          /\ favorites' = favorites
          /\ savedWorks' = savedWorks
          /\ searchQuery' = <<>>
          /\ activeFilters' = {}
          /\ filteredWorks' = works'
          /\ localStorage[storageKey] = Null => works' = <<>>
          /\ localStorage[favoritesKey] = Null => favorites' = <<>>
          /\ localStorage[savedWorksKey] = Null => savedWorks' = <<>>]_vars

ReloadedCatalog ==
    /\ lastOp = "constructor"
    /\ Len(works) = 2
    /\ \E i \in 1..Len(works) : works[i].description = <<>>
    /\ favorites # <<>>
    /\ localStorage[savedWorksKey] = Null

\* C10: getAllTags returns exactly the normalized (trimmed, lower-cased) tags
\* of the works, each once, in ascending order of their code units.
AllTagsSortedUnique ==
    lastOp = "getAllTags" =>
        /\ {returned[i] : i \in 1..Len(returned)}
               = UNION {{toLowerCase(trim(works[i].tags[k])) :
                            k \in 1..Len(works[i].tags)} : i \in 1..Len(works)}
        /\ \A i, j \in 1..Len(returned) :
               i < j => StrLess(returned[i], returned[j])

TagsOfTwoSpellings ==
    /\ lastOp = "getAllTags"
    /\ returned = <<sa, sb>>
    /\ \E i, j \in 1..Len(works) :
           /\ \E k \in 1..Len(works[i].tags) : works[i].tags[k] = sA
           /\ \E k \in 1..Len(works[j].tags) : works[j].tags[k] = s_a_

\* C11: toggleFilter(tag) adds the normalized tag when it is absent and
\* removes it when present; activeFilters then holds only normalized strings,
\* a raw tag of the same normalized form toggles the same element, and a
\* second toggleFilter(tag) restores activeFilters and filteredWorks.
ToggleFilterNormalized ==
    [][\A tag \in AllFilterTags :
          toggleFilter(tag) =>
              LET n == toLowerCase(trim(tag))
                  twice == toggleFilterResult(activeFilters', tag)
              IN  /\ activeFilters' = IF n \in activeFilters
                                      THEN activeFilters \ {n}
                                      ELSE activeFilters \cup {n}
                  /\ \A f \in activeFilters' : toLowerCase(trim(f)) = f
                  /\ \A other \in AllFilterTags :
                         toLowerCase(trim(other)) = n =>
                             toggleFilterResult(activeFilters, other)
                                 = activeFilters'
                  /\ twice = activeFilters
                  /\ applyFiltersResult(works', searchQuery', twice)
                         = filteredWorks]_vars

FilterToggledOn ==
    /\ lastOp = "toggleFilter"
    /\ activeFilters = {sa, sa_b}
    /\ filteredWorks # works
    /\ filteredWorks # <<>>

\* C12: after clearFilters activeFilters is empty, searchQuery is unchanged
\* and filteredWorks holds the works that pass the search predicate alone,
\* in order; with an empty query it equals works.
ClearFiltersKeepsQuery ==
    [][clearFilters =>
          LET Substring(q, str) ==
                  \E i \in 1..(Len(str) + 1) :
                      \E j \in (i - 1)..Len(str) : SubSeq(str, i, j) = q
              PassesSearch(w) ==
                  \/ searchQuery = <<>>
                  \/ \E field \in {w.title, w.description, w.author} :
                         Substring(toLowerCase(searchQuery), toLowerCase(field))
          IN  /\ activeFilters' = {}
              /\ searchQuery' = searchQuery
              /\ filteredWorks' = SelectSeq(works, PassesSearch)
              /\ searchQuery = <<>> => filteredWorks' = works]_vars

ClearedUnderQuery ==
    /\ lastOp = "clearFilters"
    /\ searchQuery # <<>>
    /\ filteredWorks # works
    /\ filteredWorks # <<>>

\* C13: after removeFavorite(name) no favorite has that name and the entries
\* of other names remain in their order; when no entry has that name the
\* favorites are unchanged.
RemoveFavoriteOnlyName ==
    [][\A name \in AllArtistNames :
          removeFavorite(name) =>
              LET others == {i \in 1..Len(favorites) : favorites[i].name # name}
                  kth(k) == CHOOSE i \in others :
                                Cardinality({j \in others : j < i}) = k - 1
              IN  /\ ~\E i \in 1..Len(favorites') : favorites'[i].name = name
                  /\ Len(favorites') = Cardinality(others)
                  /\ \A k \in 1..Len(favorites') :
                         favorites'[k] = favorites[kth(k)]
                  /\ (others = 1..Len(favorites)) => favorites' = favorites]_vars

RemovedOneOfThree ==
    /\ lastOp = "removeFavorite"
    /\ Len(favorites) = 2
    /\ favorites[1].name = sB
    /\ favorites[2].name = sa

\* C14: every work that reader.onload hands to addWork has at least one tag,
\* whatever the interleaving of submissions, tag toggles, form resets and
\* read completions (under SpecUpload every work of the catalog came through
\* the upload handler).
UploadedWorksTagged ==
    \A i \in 1..Len(works) : Len(works[i].tags) > 0

ConstructorFailsOnUnparsable ==
    [][constructor /\ (\E key \in Keys : SyntaxError(getItem(key)))
          => initError' /\ localStorage' = localStorage]_vars

\* C16, amended: when the payload stored under some key is a non-empty string
\* that cannot be parsed, constructing the catalog fails (no instance) and the
\* store is unchanged; an empty-string payload is taken for an absent key:
\* with no other key unparsable the catalog is constructed, that collection
\* is empty, and the store is unchanged.
ConstructorFailsOnGarbage ==
    [][constructor =>
          /\ localStorage' = localStorage
          /\ initError' = (\E key \in Keys : getItem(key) = Garbage)
          /\ ~initError' /\ getItem(storageKey) = EmptyText => works' = <<>>
          /\ ~initError' /\ getItem(favoritesKey) = EmptyText => favorites' = <<>>
          /\ ~initError' /\ getItem(savedWorksKey) = EmptyText
                 => savedWorks' = <<>>]_vars

FailedPageLoad ==
    /\ initError
    /\ lastOp = "constructor"
    /\ localStorage[storageKey].kind = "json"
    /\ localStorage[favoritesKey] = Garbage
    /\ localStorage[savedWorksKey] = EmptyText

\* C17: each operation writes at most the key of its own collection: addWork
\* and deleteWork leave the favorites and saved-works keys as they are,
\* toggleSaveWork the works and favorites keys, addFavorite and removeFavorite
\* the works and saved-works keys; setSearchQuery, toggleFilter, clearFilters,
\* applyFilters, getAllTags, isWorkSaved and isFavorited leave every key and
\* the three collections as they are.
OwnKeyOnly ==
    [][/\ (\/ \E work \in FrameDrafts : addWork(work)
           \/ \E id \in Ids : deleteWork(id))
          => /\ localStorage'[favoritesKey] = localStorage[favoritesKey]
             /\ localStorage'[savedWorksKey] = localStorage[savedWorksKey]
       /\ (\E workId \in SaveIds : toggleSaveWork(workId))
          => /\ localStorage'[storageKey] = localStorage[storageKey]
             /\ localStorage'[favoritesKey] = localStorage[favoritesKey]
       /\ (\/ \E artist \in Artists : addFavorite(artist)
           \/ \E artistName \in ArtistNames : removeFavorite(artistName))
          => /\ localStorage'[storageKey] = localStorage[storageKey]
             /\ localStorage'[savedWorksKey] = localStorage[savedWorksKey]
       /\ (\/ \E query \in Queries : setSearchQuery(query)
           \/ \E tag \in FilterTags : toggleFilter(tag)
           \/ clearFilters
           \/ applyFiltersCall
           \/ getAllTagsCall
           \/ \E workId \in SaveIds : isWorkSavedCall(workId)
           \/ \E artistName \in ArtistNames : isFavoritedCall(artistName))
          => UNCHANGED <<localStorage, works, favorites, savedWorks>>]_vars

FilteredOverFullStore ==
    /\ lastOp = "applyFilters"
    /\ \A key \in Keys : localStorage[key] # Null
    /\ Len(works) = 2
    /\ Len(filteredWorks) = 0
    /\ Len(savedWorks) = 2
    /\ Len(favorites) = 1

\* C18: deleteWork(id) leaves the saved work ids and the favorites, in memory
\* and under their keys of the store, as they are, so isWorkSaved gives the
\* same answer for every id after the deletion as before, the deleted id
\* included.
DeleteWorkKeepsSaved ==
    [][\A id \in Ids :
          deleteWork(id) =>
              /\ savedWorks' = savedWorks
              /\ favorites' = favorites
              /\ localStorage'[savedWorksKey] = localStorage[savedWorksKey]
              /\ localStorage'[favoritesKey] = localStorage[favoritesKey]
              /\ \A workId \in SaveIds :
                     isWorkSavedIn(savedWorks', workId) = isWorkSaved(workId)]_vars

\* after a deletion a saved id refers to no work of the catalog
SavedIdOfNoWork ==
    /\ lastOp = "deleteWork"
    /\ Len(works) = 1
    /\ works[1].id = 2
    /\ isWorkSaved(1)
    /\ isWorkSaved(2)
    /\ localStorage[savedWorksKey] = stringifySavedWorks(savedWorks)
    /\ Len(favorites) = 1

====
